---- MODULE Spec2Model ----
(***************************************************************************)
(* Model of the payload converter of transcriber_service.py                *)
(* (TranscriberService) and of the clock and list objects it reads.        *)
(*                                                                         *)
(* A Python str is a sequence of one-character strings.  A Python value is *)
(* a record of one field, named after its type; a dict is the sequence of  *)
(* its <<key, value>> items in insertion order, a list the sequence of its *)
(* elements, a float the number of its tenths.                             *)
(***************************************************************************)
EXTENDS Integers, Sequences, FiniteSets, TLC

VARIABLES clock, heap, refs, lastReturned, nmut, call, prev, formatted,
          bpc, bargs, bidx, results, response

vars == <<clock, heap, refs, lastReturned, nmut, call, prev, formatted,
          bpc, bargs, bidx, results, response>>
heapVars == <<heap, refs, lastReturned, nmut>>
callVars == <<call, prev, formatted>>
batchVars == <<bpc, bargs, bidx, results>>

(***************************************************************************)
(* Bounds of the model.                                                    *)
(***************************************************************************)
MaxClock == 2
MaxOpts == 1
MaxBatch == 3
MaxRefs == 2
MaxMutations == 2

(***************************************************************************)
(* Python values.                                                          *)
(***************************************************************************)
Str(s) == [str |-> s]
IntV(n) == [int |-> n]
FloatV(tenths) == [float |-> tenths]
BoolV(b) == [bool |-> b]
NoneV == [None |-> 0]
Dict(items) == [dict |-> items]
List(elems) == [list |-> elems]

\* type(x) and the content of x
Tag(x) == CHOOSE k \in DOMAIN x : TRUE
Val(x) == x[Tag(x)]

\* bool(x) as the `if x:` tests of the builders evaluate it
Truthy(x) ==
    CASE Tag(x) = "str" -> Len(Val(x)) > 0
      [] Tag(x) = "int" -> Val(x) # 0
      [] Tag(x) = "float" -> Val(x) # 0
      [] Tag(x) = "bool" -> Val(x)
      [] Tag(x) = "None" -> FALSE
      [] Tag(x) = "dict" -> Len(Val(x)) > 0
      [] Tag(x) = "list" -> Len(Val(x)) > 0

\* the dict operations used on payloads, over item sequences
DictHas(items, k) == \E i \in 1..Len(items) : items[i][1] = k
DictGet(items, k) == items[CHOOSE i \in 1..Len(items) : items[i][1] = k][2]
DictKeys(items) == [i \in 1..Len(items) |-> items[i][1]]
DictSet(items, k, x) ==
    IF DictHas(items, k)
    THEN [i \in 1..Len(items) |-> IF items[i][1] = k THEN <<k, x>> ELSE items[i]]
    ELSE Append(items, <<k, x>>)

RECURSIVE DictUpdate(_, _)
DictUpdate(items, other) ==
    IF other = <<>> THEN items
    ELSE DictUpdate(DictSet(items, other[1][1], other[1][2]), Tail(other))

(***************************************************************************)
(* str methods.                                                            *)
(***************************************************************************)
UpperCase == <<"A", "B", "C", "D", "E", "F", "G", "H", "I", "J", "K", "L", "M", "N", "O", "P", "Q", "R", "S", "T", "U", "V", "W", "X", "Y", "Z">>
LowerCase == <<"a", "b", "c", "d", "e", "f", "g", "h", "i", "j", "k", "l", "m", "n", "o", "p", "q", "r", "s", "t", "u", "v", "w", "x", "y", "z">>

LowerChar(c) ==
    IF \E i \in 1..Len(UpperCase) : UpperCase[i] = c
    THEN LowerCase[CHOOSE i \in 1..Len(UpperCase) : UpperCase[i] = c]
    ELSE c

\* str.lower()
Lower(s) == [i \in 1..Len(s) |-> LowerChar(s[i])]

\* sep.join(strs)
RECURSIVE Join(_, _)
Join(sep, strs) ==
    IF strs = <<>> THEN <<>>
    ELSE IF Len(strs) = 1 THEN strs[1]
    ELSE strs[1] \o sep \o Join(sep, Tail(strs))

\* x in xs, for a list xs
InList(x, xs) == \E i \in 1..Len(xs) : xs[i] = x

\* sub in s, for two strs
Contains(s, sub) ==
    \E i \in 0..(Len(s) - Len(sub)) : SubSeq(s, i + 1, i + Len(sub)) = sub

(***************************************************************************)
(* datetime.utcnow().isoformat(): the clock counts half seconds from       *)
(* 2024-01-01T00:00:00; isoformat() leaves out a zero microsecond part.    *)
(***************************************************************************)
Digits == <<"0", "1", "2", "3", "4", "5", "6", "7", "8", "9">>
Digit(n) == Digits[n + 1]
Pad2(n) == <<Digit(n \div 10), Digit(n % 10)>>

isoformat(now) ==
    <<"2", "0", "2", "4", "-", "0", "1", "-", "0", "1", "T", "0", "0", ":", "0", "0", ":">> \o Pad2(now \div 2)
      \o (IF now % 2 = 0 THEN <<>> ELSE <<".", "5", "0", "0", "0", "0", "0">>)

(***************************************************************************)
(* Outcome of a call: the returned value, or the exception raised.         *)
(***************************************************************************)
Return(x) == [exc |-> "none", val |-> x]
Raise(kind, msg) == [exc |-> kind, val |-> Str(msg)]

(***************************************************************************)
(* TranscriberService                                                      *)
(***************************************************************************)
openai == <<"o", "p", "e", "n", "a", "i">>
anthropic == <<"a", "n", "t", "h", "r", "o", "p", "i", "c">>
ollama == <<"o", "l", "l", "a", "m", "a">>
google == <<"g", "o", "o", "g", "l", "e">>
cohere == <<"c", "o", "h", "e", "r", "e">>
huggingface == <<"h", "u", "g", "g", "i", "n", "g", "f", "a", "c", "e">>
generic == <<"g", "e", "n", "e", "r", "i", "c">>

SUPPORTED_PROVIDERS ==
    <<openai, anthropic, ollama, google, cohere, huggingface, generic>>

\* text_to_openai testing `max_tokens is not None` in place of `max_tokens`
text_to_openai_NotNone(text, model, system_message, temperature, max_tokens) ==
    LET m0 == <<>>
        m1 == IF Truthy(system_message)
              THEN Append(m0, Dict(<< <<<<"r", "o", "l", "e">>, Str(<<"s", "y", "s", "t", "e", "m">>)>>,
                                      <<<<"c", "o", "n", "t", "e", "n", "t">>, system_message>> >>))
              ELSE m0
        messages == Append(m1, Dict(<< <<<<"r", "o", "l", "e">>, Str(<<"u", "s", "e", "r">>)>>,
                                       <<<<"c", "o", "n", "t", "e", "n", "t">>, text>> >>))
        payload == << <<<<"m", "o", "d", "e", "l">>, model>>,
                      <<<<"m", "e", "s", "s", "a", "g", "e", "s">>, List(messages)>>,
                      <<<<"t", "e", "m", "p", "e", "r", "a", "t", "u", "r", "e">>, temperature>> >>
    IN  IF max_tokens # NoneV
        THEN Dict(DictSet(payload, <<"m", "a", "x", "_", "t", "o", "k", "e", "n", "s">>, max_tokens))
        ELSE Dict(payload)

\* text_to_openai appending the system message after the user message
text_to_openai_SystemLast(text, model, system_message, temperature, max_tokens) ==
    LET m0 == << Dict(<< <<<<"r", "o", "l", "e">>, Str(<<"u", "s", "e", "r">>)>>,
                         <<<<"c", "o", "n", "t", "e", "n", "t">>, text>> >>) >>
        messages == IF Truthy(system_message)
                    THEN Append(m0, Dict(<< <<<<"r", "o", "l", "e">>, Str(<<"s", "y", "s", "t", "e", "m">>)>>,
                                            <<<<"c", "o", "n", "t", "e", "n", "t">>, system_message>> >>))
                    ELSE m0
        payload == << <<<<"m", "o", "d", "e", "l">>, model>>,
                      <<<<"m", "e", "s", "s", "a", "g", "e", "s">>, List(messages)>>,
                      <<<<"t", "e", "m", "p", "e", "r", "a", "t", "u", "r", "e">>, temperature>> >>
    IN  IF Truthy(max_tokens)
        THEN Dict(DictSet(payload, <<"m", "a", "x", "_", "t", "o", "k", "e", "n", "s">>, max_tokens))
        ELSE Dict(payload)

text_to_openai(text, model, system_message, temperature, max_tokens) ==
    LET m0 == <<>>
        m1 == IF Truthy(system_message)
              THEN Append(m0, Dict(<< <<<<"r", "o", "l", "e">>, Str(<<"s", "y", "s", "t", "e", "m">>)>>,
                                      <<<<"c", "o", "n", "t", "e", "n", "t">>, system_message>> >>))
              ELSE m0
        messages == Append(m1, Dict(<< <<<<"r", "o", "l", "e">>, Str(<<"u", "s", "e", "r">>)>>,
                                       <<<<"c", "o", "n", "t", "e", "n", "t">>, text>> >>))
        payload == << <<<<"m", "o", "d", "e", "l">>, model>>,
                      <<<<"m", "e", "s", "s", "a", "g", "e", "s">>, List(messages)>>,
                      <<<<"t", "e", "m", "p", "e", "r", "a", "t", "u", "r", "e">>, temperature>> >>
    IN  IF Truthy(max_tokens)
        THEN Dict(DictSet(payload, <<"m", "a", "x", "_", "t", "o", "k", "e", "n", "s">>, max_tokens))
        ELSE Dict(payload)

text_to_anthropic(text, model, system_message, temperature, max_tokens) ==
    LET payload == << <<<<"m", "o", "d", "e", "l">>, model>>,
                      <<<<"m", "a", "x", "_", "t", "o", "k", "e", "n", "s">>, max_tokens>>,
                      <<<<"t", "e", "m", "p", "e", "r", "a", "t", "u", "r", "e">>, temperature>>,
                      <<<<"m", "e", "s", "s", "a", "g", "e", "s">>,
                        List(<< Dict(<< <<<<"r", "o", "l", "e">>, Str(<<"u", "s", "e", "r">>)>>,
                                        <<<<"c", "o", "n", "t", "e", "n", "t">>, text>> >>) >>)>> >>
    IN  IF Truthy(system_message)
        THEN Dict(DictSet(payload, <<"s", "y", "s", "t", "e", "m">>, system_message))
        ELSE Dict(payload)

text_to_ollama(text, model, system_message, stream) ==
    LET payload == << <<<<"m", "o", "d", "e", "l">>, model>>,
                      <<<<"p", "r", "o", "m", "p", "t">>, text>>,
                      <<<<"s", "t", "r", "e", "a", "m">>, stream>> >>
    IN  IF Truthy(system_message)
        THEN Dict(DictSet(payload, <<"s", "y", "s", "t", "e", "m">>, system_message))
        ELSE Dict(payload)

text_to_google(text, model, system_message, temperature, max_tokens) ==
    LET c0 == <<>>
        c1 == IF Truthy(system_message)
              THEN Append(c0, Dict(<< <<<<"r", "o", "l", "e">>, Str(<<"u", "s", "e", "r">>)>>,
                                      <<<<"p", "a", "r", "t", "s">>,
                                        List(<< Dict(<< <<<<"t", "e", "x", "t">>, system_message>> >>) >>)>> >>))
              ELSE c0
        contents == Append(c1, Dict(<< <<<<"r", "o", "l", "e">>, Str(<<"u", "s", "e", "r">>)>>,
                                       <<<<"p", "a", "r", "t", "s">>,
                                         List(<< Dict(<< <<<<"t", "e", "x", "t">>, text>> >>) >>)>> >>))
        generationConfig == << <<<<"t", "e", "m", "p", "e", "r", "a", "t", "u", "r", "e">>, temperature>> >>
        payload == << <<<<"c", "o", "n", "t", "e", "n", "t", "s">>, List(contents)>>,
                      <<<<"g", "e", "n", "e", "r", "a", "t", "i", "o", "n", "C", "o", "n", "f", "i", "g">>, Dict(generationConfig)>> >>
    IN  IF Truthy(max_tokens)
        THEN Dict(DictSet(payload, <<"g", "e", "n", "e", "r", "a", "t", "i", "o", "n", "C", "o", "n", "f", "i", "g">>,
                          Dict(DictSet(generationConfig, <<"m", "a", "x", "O", "u", "t", "p", "u", "t", "T", "o", "k", "e", "n", "s">>, max_tokens))))
        ELSE Dict(payload)

text_to_cohere(text, model, system_message, temperature, max_tokens) ==
    LET payload == << <<<<"m", "o", "d", "e", "l">>, model>>,
                      <<<<"m", "e", "s", "s", "a", "g", "e">>, text>>,
                      <<<<"t", "e", "m", "p", "e", "r", "a", "t", "u", "r", "e">>, temperature>> >>
        p1 == IF Truthy(system_message)
              THEN DictSet(payload, <<"p", "r", "e", "a", "m", "b", "l", "e">>, system_message)
              ELSE payload
    IN  IF Truthy(max_tokens)
        THEN Dict(DictSet(p1, <<"m", "a", "x", "_", "t", "o", "k", "e", "n", "s">>, max_tokens))
        ELSE Dict(p1)

\* text_to_huggingface with another default token count
text_to_huggingface_Default(text, model, parameters) ==
    LET payload == << <<<<"i", "n", "p", "u", "t", "s">>, text>> >>
    IN  IF Truthy(parameters)
        THEN Dict(DictSet(payload, <<"p", "a", "r", "a", "m", "e", "t", "e", "r", "s">>, parameters))
        ELSE Dict(DictSet(payload, <<"p", "a", "r", "a", "m", "e", "t", "e", "r", "s">>,
                          Dict(<< <<<<"m", "a", "x", "_", "n", "e", "w", "_", "t", "o", "k", "e", "n", "s">>, IntV(256)>>,
                                  <<<<"t", "e", "m", "p", "e", "r", "a", "t", "u", "r", "e">>, FloatV(7)>>,
                                  <<<<"r", "e", "t", "u", "r", "n", "_", "f", "u", "l", "l", "_", "t", "e", "x", "t">>, BoolV(FALSE)>> >>)))

text_to_huggingface(text, model, parameters) ==
    LET payload == << <<<<"i", "n", "p", "u", "t", "s">>, text>> >>
    IN  IF Truthy(parameters)
        THEN Dict(DictSet(payload, <<"p", "a", "r", "a", "m", "e", "t", "e", "r", "s">>, parameters))
        ELSE Dict(DictSet(payload, <<"p", "a", "r", "a", "m", "e", "t", "e", "r", "s">>,
                          Dict(<< <<<<"m", "a", "x", "_", "n", "e", "w", "_", "t", "o", "k", "e", "n", "s">>, IntV(250)>>,
                                  <<<<"t", "e", "m", "p", "e", "r", "a", "t", "u", "r", "e">>, FloatV(7)>>,
                                  <<<<"r", "e", "t", "u", "r", "n", "_", "f", "u", "l", "l", "_", "t", "e", "x", "t">>, BoolV(FALSE)>> >>)))

\* text_to_generic stamping the input field as well
text_to_generic_StampedInput(text, model, additional_params, now) ==
    LET payload == << <<<<"m", "o", "d", "e", "l">>, model>>,
                      <<<<"i", "n", "p", "u", "t">>, Str(Val(text) \o isoformat(now))>>,
                      <<<<"t", "i", "m", "e", "s", "t", "a", "m", "p">>, Str(isoformat(now))>> >>
    IN  IF Truthy(additional_params)
        THEN Dict(DictUpdate(payload, Val(additional_params)))
        ELSE Dict(payload)

\* text_to_generic merging the other way round: the builder's keys win
text_to_generic_KeepOwn(text, model, additional_params, now) ==
    LET payload == << <<<<"m", "o", "d", "e", "l">>, model>>,
                      <<<<"i", "n", "p", "u", "t">>, text>>,
                      <<<<"t", "i", "m", "e", "s", "t", "a", "m", "p">>, Str(isoformat(now))>> >>
    IN  IF Truthy(additional_params)
        THEN Dict(DictUpdate(Val(additional_params), payload))
        ELSE Dict(payload)

text_to_generic(text, model, additional_params, now) ==
    LET payload == << <<<<"m", "o", "d", "e", "l">>, model>>,
                      <<<<"i", "n", "p", "u", "t">>, text>>,
                      <<<<"t", "i", "m", "e", "s", "t", "a", "m", "p">>, Str(isoformat(now))>> >>
    IN  IF Truthy(additional_params)
        THEN Dict(DictUpdate(payload, Val(additional_params)))
        ELSE Dict(payload)

(***************************************************************************)
(* Binding of **kwargs to a builder's signature: a keyword that is not a   *)
(* parameter name raises TypeError for the first such keyword, in the      *)
(* words of CPython 3.10 and later; a parameter without a keyword takes    *)
(* its default.                                                            *)
(***************************************************************************)
Arg(kwargs, name, default) ==
    IF DictHas(kwargs, name) THEN DictGet(kwargs, name) ELSE default

Unexpected(kwargs, params) ==
    {i \in 1..Len(kwargs) : ~InList(kwargs[i][1], params)}

FirstUnexpected(kwargs, params) ==
    kwargs[CHOOSE i \in Unexpected(kwargs, params) :
             \A j \in Unexpected(kwargs, params) : i <= j][1]

Invoke(fname, params, kwargs, body) ==
    IF Unexpected(kwargs, params) # {}
    THEN Raise("TypeError",
               <<"T", "r", "a", "n", "s", "c", "r", "i", "b", "e", "r", "S", "e", "r", "v", "i", "c", "e", ".">> \o fname
                 \o <<"(", ")", " ", "g", "o", "t", " ", "a", "n", " ", "u", "n", "e", "x", "p", "e", "c", "t", "e", "d", " ", "k", "e", "y", "w", "o", "r", "d", " ", "a", "r", "g", "u", "m", "e", "n", "t", " ", "'">>
                 \o FirstUnexpected(kwargs, params) \o <<"'">>)
    ELSE Return(body)

\* the keyword parameters of the builder that convert dispatches to
BuilderParams(provider) ==
    CASE provider = openai ->
           <<<<"m", "o", "d", "e", "l">>, <<"s", "y", "s", "t", "e", "m", "_", "m", "e", "s", "s", "a", "g", "e">>, <<"t", "e", "m", "p", "e", "r", "a", "t", "u", "r", "e">>, <<"m", "a", "x", "_", "t", "o", "k", "e", "n", "s">>>>
      [] provider = anthropic ->
           <<<<"m", "o", "d", "e", "l">>, <<"s", "y", "s", "t", "e", "m", "_", "m", "e", "s", "s", "a", "g", "e">>, <<"t", "e", "m", "p", "e", "r", "a", "t", "u", "r", "e">>, <<"m", "a", "x", "_", "t", "o", "k", "e", "n", "s">>>>
      [] provider = ollama ->
           <<<<"m", "o", "d", "e", "l">>, <<"s", "y", "s", "t", "e", "m", "_", "m", "e", "s", "s", "a", "g", "e">>, <<"s", "t", "r", "e", "a", "m">>>>
      [] provider = google ->
           <<<<"m", "o", "d", "e", "l">>, <<"s", "y", "s", "t", "e", "m", "_", "m", "e", "s", "s", "a", "g", "e">>, <<"t", "e", "m", "p", "e", "r", "a", "t", "u", "r", "e">>, <<"m", "a", "x", "_", "t", "o", "k", "e", "n", "s">>>>
      [] provider = cohere ->
           <<<<"m", "o", "d", "e", "l">>, <<"s", "y", "s", "t", "e", "m", "_", "m", "e", "s", "s", "a", "g", "e">>, <<"t", "e", "m", "p", "e", "r", "a", "t", "u", "r", "e">>, <<"m", "a", "x", "_", "t", "o", "k", "e", "n", "s">>>>
      [] provider = huggingface ->
           <<<<"m", "o", "d", "e", "l">>, <<"p", "a", "r", "a", "m", "e", "t", "e", "r", "s">>>>
      [] OTHER ->
           <<<<"m", "o", "d", "e", "l">>, <<"a", "d", "d", "i", "t", "i", "o", "n", "a", "l", "_", "p", "a", "r", "a", "m", "s">>>>

\* UnsupportedMessage without the list of the supported providers
UnsupportedMessage_NoList(provider, supported) ==
    <<"U", "n", "s", "u", "p", "p", "o", "r", "t", "e", "d", " ", "p", "r", "o", "v", "i", "d", "e", "r", ":", " ">> \o provider \o <<".", " ">>

UnsupportedMessage(provider, supported) ==
    <<"U", "n", "s", "u", "p", "p", "o", "r", "t", "e", "d", " ", "p", "r", "o", "v", "i", "d", "e", "r", ":", " ">> \o provider \o <<".", " ">>
      \o <<"S", "u", "p", "p", "o", "r", "t", "e", "d", " ", "p", "r", "o", "v", "i", "d", "e", "r", "s", ":", " ">> \o Join(<<",", " ">>, supported)

\* convert(text, provider, **kwargs), run at clock reading `now` with the
\* class attribute SUPPORTED_PROVIDERS holding the list `supported`
convert(text, provider0, kwargs, now, supported) ==
    LET provider == Lower(provider0)
    IN  IF ~InList(provider, supported)
        THEN Raise("ValueError", UnsupportedMessage(provider, supported))
        ELSE IF provider = openai
        THEN Invoke(<<"t", "e", "x", "t", "_", "t", "o", "_", "o", "p", "e", "n", "a", "i">>, BuilderParams(openai),
                    kwargs,
                    text_to_openai(text,
                                   Arg(kwargs, <<"m", "o", "d", "e", "l">>, Str(<<"g", "p", "t", "-", "4">>)),
                                   Arg(kwargs, <<"s", "y", "s", "t", "e", "m", "_", "m", "e", "s", "s", "a", "g", "e">>, NoneV),
                                   Arg(kwargs, <<"t", "e", "m", "p", "e", "r", "a", "t", "u", "r", "e">>, FloatV(7)),
                                   Arg(kwargs, <<"m", "a", "x", "_", "t", "o", "k", "e", "n", "s">>, NoneV)))
        ELSE IF provider = anthropic
        THEN Invoke(<<"t", "e", "x", "t", "_", "t", "o", "_", "a", "n", "t", "h", "r", "o", "p", "i", "c">>, BuilderParams(anthropic),
                    kwargs,
                    text_to_anthropic(text,
                                      Arg(kwargs, <<"m", "o", "d", "e", "l">>, Str(<<"c", "l", "a", "u", "d", "e", "-", "3", "-", "5", "-", "s", "o", "n", "n", "e", "t", "-", "2", "0", "2", "4", "1", "0", "2", "2">>)),
                                      Arg(kwargs, <<"s", "y", "s", "t", "e", "m", "_", "m", "e", "s", "s", "a", "g", "e">>, NoneV),
                                      Arg(kwargs, <<"t", "e", "m", "p", "e", "r", "a", "t", "u", "r", "e">>, FloatV(10)),
                                      Arg(kwargs, <<"m", "a", "x", "_", "t", "o", "k", "e", "n", "s">>, IntV(1024))))
        ELSE IF provider = ollama
        THEN Invoke(<<"t", "e", "x", "t", "_", "t", "o", "_", "o", "l", "l", "a", "m", "a">>, BuilderParams(ollama),
                    kwargs,
                    text_to_ollama(text,
                                   Arg(kwargs, <<"m", "o", "d", "e", "l">>, Str(<<"l", "l", "a", "m", "a", "2">>)),
                                   Arg(kwargs, <<"s", "y", "s", "t", "e", "m", "_", "m", "e", "s", "s", "a", "g", "e">>, NoneV),
                                   Arg(kwargs, <<"s", "t", "r", "e", "a", "m">>, BoolV(FALSE))))
        ELSE IF provider = google
        THEN Invoke(<<"t", "e", "x", "t", "_", "t", "o", "_", "g", "o", "o", "g", "l", "e">>, BuilderParams(google),
                    kwargs,
                    text_to_google(text,
                                   Arg(kwargs, <<"m", "o", "d", "e", "l">>, Str(<<"g", "e", "m", "i", "n", "i", "-", "p", "r", "o">>)),
                                   Arg(kwargs, <<"s", "y", "s", "t", "e", "m", "_", "m", "e", "s", "s", "a", "g", "e">>, NoneV),
                                   Arg(kwargs, <<"t", "e", "m", "p", "e", "r", "a", "t", "u", "r", "e">>, FloatV(7)),
                                   Arg(kwargs, <<"m", "a", "x", "_", "t", "o", "k", "e", "n", "s">>, NoneV)))
        ELSE IF provider = cohere
        THEN Invoke(<<"t", "e", "x", "t", "_", "t", "o", "_", "c", "o", "h", "e", "r", "e">>, BuilderParams(cohere),
                    kwargs,
                    text_to_cohere(text,
                                   Arg(kwargs, <<"m", "o", "d", "e", "l">>, Str(<<"c", "o", "m", "m", "a", "n", "d">>)),
                                   Arg(kwargs, <<"s", "y", "s", "t", "e", "m", "_", "m", "e", "s", "s", "a", "g", "e">>, NoneV),
                                   Arg(kwargs, <<"t", "e", "m", "p", "e", "r", "a", "t", "u", "r", "e">>, FloatV(7)),
                                   Arg(kwargs, <<"m", "a", "x", "_", "t", "o", "k", "e", "n", "s">>, NoneV)))
        ELSE IF provider = huggingface
        THEN Invoke(<<"t", "e", "x", "t", "_", "t", "o", "_", "h", "u", "g", "g", "i", "n", "g", "f", "a", "c", "e">>, BuilderParams(huggingface),
                    kwargs,
                    text_to_huggingface(text,
                                        Arg(kwargs, <<"m", "o", "d", "e", "l">>, Str(<<"g", "p", "t", "2">>)),
                                        Arg(kwargs, <<"p", "a", "r", "a", "m", "e", "t", "e", "r", "s">>, NoneV)))
        ELSE Invoke(<<"t", "e", "x", "t", "_", "t", "o", "_", "g", "e", "n", "e", "r", "i", "c">>, BuilderParams(generic),
                    kwargs,
                    text_to_generic(text,
                                    Arg(kwargs, <<"m", "o", "d", "e", "l">>, Str(<<"d", "e", "f", "a", "u", "l", "t">>)),
                                    Arg(kwargs, <<"a", "d", "d", "i", "t", "i", "o", "n", "a", "l", "_", "p", "a", "r", "a", "m", "s">>, NoneV),
                                    now))

\* what `except Exception` catches of the exceptions convert raises
IsException(kind) == kind \in {"ValueError", "TypeError"}

\* the body of the loop of convert_batch without the except clause: the
\* exception of convert leaves convert_batch
BatchBody_NoCatch(res, text, provider, kwargs, now, supported) ==
    LET out == convert(text, provider, kwargs, now, supported)
    IN  IF out.exc = "none"
        THEN [results |-> DictSet(res, provider, out.val), raised |-> FALSE]
        ELSE [results |-> res, raised |-> TRUE]

\* the body of the loop of convert_batch for one provider, from the results
\* res: the results after it, and whether an exception leaves convert_batch
BatchBody(res, text, provider, kwargs, now, supported) ==
    LET out == convert(text, provider, kwargs, now, supported)
    IN  IF out.exc = "none"
        THEN [results |-> DictSet(res, provider, out.val), raised |-> FALSE]
        ELSE IF IsException(out.exc)
        THEN [results |-> DictSet(res, provider, Dict(<< <<<<"e", "r", "r", "o", "r">>, out.val>> >>)),
              raised |-> FALSE]
        ELSE [results |-> res, raised |-> TRUE]

ClassAttr == 1

\* get_supported_providers returning the class attribute itself
get_supported_providers_NoCopy(h) == [heap |-> h, ref |-> ClassAttr]

\* get_supported_providers() on the heap h: the heap after the call and the
\* list object returned, a new object holding the elements of the class
\* attribute
get_supported_providers(h) ==
    [heap |-> Append(h, h[ClassAttr]), ref |-> Len(h) + 1]

(***************************************************************************)
(* json.dumps(data, indent=indent, ensure_ascii=False)                     *)
(***************************************************************************)
\* EscapeChar leaving the quote as it is
EscapeChar_NoQuote(c) ==
    CASE c = "\\" -> <<"\\", "\\">>
      [] c = "\n" -> <<"\\", "n">>
      [] c = "\r" -> <<"\\", "r">>
      [] c = "\t" -> <<"\\", "t">>
      [] c = "\f" -> <<"\\", "f">>
      [] OTHER -> <<c>>

\* the replacement of one character inside a JSON string: with
\* ensure_ascii=False only the quote, the backslash and the control
\* characters are escaped, every other character is written as it is
EscapeChar(c) ==
    CASE c = "\"" -> <<"\\", "\"">>
      [] c = "\\" -> <<"\\", "\\">>
      [] c = "\n" -> <<"\\", "n">>
      [] c = "\r" -> <<"\\", "r">>
      [] c = "\t" -> <<"\\", "t">>
      [] c = "\f" -> <<"\\", "f">>
      [] OTHER -> <<c>>

RECURSIVE EscapeChars(_)
EscapeChars(s) ==
    IF s = <<>> THEN <<>> ELSE EscapeChar(s[1]) \o EscapeChars(Tail(s))

EncodeString(s) == <<"\"">> \o EscapeChars(s) \o <<"\"">>

RECURSIVE NatStr(_)
NatStr(n) == IF n < 10 THEN <<Digit(n)>> ELSE NatStr(n \div 10) \o <<Digit(n % 10)>>

\* int.__repr__
IntStr(n) == IF n < 0 THEN <<"-">> \o NatStr(-n) ELSE NatStr(n)

\* float.__repr__ of a number of tenths
FloatStr(tenths) ==
    LET a == IF tenths < 0 THEN -tenths ELSE tenths
    IN  (IF tenths < 0 THEN <<"-">> ELSE <<>>)
          \o NatStr(a \div 10) \o <<".">> \o <<Digit(a % 10)>>

RECURSIVE Spaces(_)
Spaces(n) == IF n = 0 THEN <<>> ELSE <<" ">> \o Spaces(n - 1)

NewlineIndent(indent, level) == <<"\n">> \o Spaces(indent * level)

RECURSIVE Encode(_, _, _), EncodeItems(_, _, _), EncodeElems(_, _, _)
\* the text of value x at nesting depth `level`
Encode(x, indent, level) ==
    CASE Tag(x) = "None" -> <<"n", "u", "l", "l">>
      [] Tag(x) = "bool" -> (IF Val(x) THEN <<"t", "r", "u", "e">> ELSE <<"f", "a", "l", "s", "e">>)
      [] Tag(x) = "int" -> IntStr(Val(x))
      [] Tag(x) = "float" -> FloatStr(Val(x))
      [] Tag(x) = "str" -> EncodeString(Val(x))
      [] Tag(x) = "list" ->
           IF Val(x) = <<>> THEN <<"[", "]">>
           ELSE <<"[">> \o NewlineIndent(indent, level + 1)
                  \o EncodeElems(Val(x), indent, level + 1)
                  \o NewlineIndent(indent, level) \o <<"]">>
      [] Tag(x) = "dict" ->
           IF Val(x) = <<>> THEN <<"{", "}">>
           ELSE <<"{">> \o NewlineIndent(indent, level + 1)
                  \o EncodeItems(Val(x), indent, level + 1)
                  \o NewlineIndent(indent, level) \o <<"}">>

EncodeElems(elems, indent, level) ==
    Encode(elems[1], indent, level)
      \o (IF Len(elems) = 1 THEN <<>>
          ELSE <<",">> \o NewlineIndent(indent, level)
                 \o EncodeElems(Tail(elems), indent, level))

EncodeItems(items, indent, level) ==
    EncodeString(items[1][1]) \o <<":", " ">> \o Encode(items[1][2], indent, level)
      \o (IF Len(items) = 1 THEN <<>>
          ELSE <<",">> \o NewlineIndent(indent, level)
                 \o EncodeItems(Tail(items), indent, level))

format_json(data, indent) == Encode(data, indent, 0)

(***************************************************************************)
(* json.loads, the parse that the round trip of format_json is stated      *)
(* with: a recursive descent over the text.  A float of the text has one   *)
(* fractional digit, as the floats of the model have.                      *)
(***************************************************************************)
Whitespace == {" ", "\n", "\r", "\t"}
ControlChars == {"\n", "\r", "\t", "\f"}

RECURSIVE SkipWs(_, _)
SkipWs(s, i) ==
    IF i <= Len(s) /\ s[i] \in Whitespace THEN SkipWs(s, i + 1) ELSE i

ParseFail == [ok |-> FALSE, val |-> NoneV, pos |-> 0]
ParseOk(x, pos) == [ok |-> TRUE, val |-> x, pos |-> pos]

Unescape(c) ==
    CASE c = "n" -> "\n"
      [] c = "r" -> "\r"
      [] c = "t" -> "\t"
      [] c = "f" -> "\f"
      [] OTHER -> c

\* the string whose opening quote ends before position i
RECURSIVE ParseString(_, _, _)
ParseString(s, i, acc) ==
    IF i > Len(s) THEN ParseFail
    ELSE IF s[i] = "\"" THEN ParseOk(Str(acc), i + 1)
    ELSE IF s[i] = "\\"
    THEN IF i + 1 <= Len(s) /\ s[i + 1] \in {"\"", "\\", "/", "n", "r", "t", "f"}
         THEN ParseString(s, i + 2, Append(acc, Unescape(s[i + 1])))
         ELSE ParseFail
    ELSE IF s[i] \in ControlChars THEN ParseFail
    ELSE ParseString(s, i + 1, Append(acc, s[i]))

IsDigit(c) == \E d \in 1..Len(Digits) : Digits[d] = c
DigitVal(c) == (CHOOSE d \in 1..Len(Digits) : Digits[d] = c) - 1

\* the digits from position i on: their value and the position after them
RECURSIVE ParseDigits(_, _, _)
ParseDigits(s, i, acc) ==
    IF i <= Len(s) /\ IsDigit(s[i])
    THEN ParseDigits(s, i + 1, acc * 10 + DigitVal(s[i]))
    ELSE <<acc, i>>

ParseNumber(s, i) ==
    LET neg == s[i] = "-"
        i1 == IF neg THEN i + 1 ELSE i
        whole == ParseDigits(s, i1, 0)
        i2 == whole[2]
        sign == IF neg THEN -1 ELSE 1
    IN  IF i2 = i1 THEN ParseFail
        ELSE IF i2 <= Len(s) /\ s[i2] = "."
        THEN IF i2 + 1 <= Len(s) /\ IsDigit(s[i2 + 1])
                  /\ ~(i2 + 2 <= Len(s) /\ IsDigit(s[i2 + 2]))
             THEN ParseOk(FloatV(sign * (whole[1] * 10 + DigitVal(s[i2 + 1]))), i2 + 2)
             ELSE ParseFail
        ELSE ParseOk(IntV(sign * whole[1]), i2)

ParseLiteral(s, i, word, x) ==
    IF i + Len(word) - 1 <= Len(s) /\ SubSeq(s, i, i + Len(word) - 1) = word
    THEN ParseOk(x, i + Len(word))
    ELSE ParseFail

RECURSIVE ParseValue(_, _), ParseMembers(_, _, _), ParseElems(_, _, _)
ParseValue(s, i0) ==
    LET i == SkipWs(s, i0)
    IN  IF i > Len(s) THEN ParseFail
        ELSE IF s[i] = "{"
        THEN LET j == SkipWs(s, i + 1)
             IN  IF j <= Len(s) /\ s[j] = "}" THEN ParseOk(Dict(<<>>), j + 1)
                 ELSE ParseMembers(s, j, <<>>)
        ELSE IF s[i] = "["
        THEN LET j == SkipWs(s, i + 1)
             IN  IF j <= Len(s) /\ s[j] = "]" THEN ParseOk(List(<<>>), j + 1)
                 ELSE ParseElems(s, j, <<>>)
        ELSE IF s[i] = "\"" THEN ParseString(s, i + 1, <<>>)
        ELSE IF s[i] = "t" THEN ParseLiteral(s, i, <<"t", "r", "u", "e">>, BoolV(TRUE))
        ELSE IF s[i] = "f" THEN ParseLiteral(s, i, <<"f", "a", "l", "s", "e">>, BoolV(FALSE))
        ELSE IF s[i] = "n" THEN ParseLiteral(s, i, <<"n", "u", "l", "l">>, NoneV)
        ELSE IF s[i] = "-" \/ IsDigit(s[i]) THEN ParseNumber(s, i)
        ELSE ParseFail

\* the members of an object from position i on, after the items acc
ParseMembers(s, i, acc) ==
    IF ~(i <= Len(s) /\ s[i] = "\"") THEN ParseFail
    ELSE LET key == ParseString(s, i + 1, <<>>)
         IN  IF ~key.ok THEN ParseFail
             ELSE LET c == SkipWs(s, key.pos)
                  IN  IF ~(c <= Len(s) /\ s[c] = ":") THEN ParseFail
                      ELSE LET x == ParseValue(s, c + 1)
                           IN  IF ~x.ok THEN ParseFail
                               ELSE LET e == SkipWs(s, x.pos)
                                        items == DictSet(acc, Val(key.val), x.val)
                                    IN  IF e > Len(s) THEN ParseFail
                                        ELSE IF s[e] = "}" THEN ParseOk(Dict(items), e + 1)
                                        ELSE IF s[e] = ","
                                        THEN ParseMembers(s, SkipWs(s, e + 1), items)
                                        ELSE ParseFail

\* the elements of an array from position i on, after the elements acc
ParseElems(s, i, acc) ==
    LET x == ParseValue(s, i)
    IN  IF ~x.ok THEN ParseFail
        ELSE LET e == SkipWs(s, x.pos)
                 elems == Append(acc, x.val)
             IN  IF e > Len(s) THEN ParseFail
                 ELSE IF s[e] = "]" THEN ParseOk(List(elems), e + 1)
                 ELSE IF s[e] = "," THEN ParseElems(s, e + 1, elems)
                 ELSE ParseFail

\* json.loads(s)
loads(s) ==
    LET r == ParseValue(s, 1)
    IN  IF r.ok /\ SkipWs(s, r.pos) = Len(s) + 1
        THEN Return(r.val)
        ELSE Raise("JSONDecodeError", <<>>)

(***************************************************************************)
(* transcriber_routes.py: the single-conversion endpoints.  A handler      *)
(* answers with status 200 and a body, or raises HTTPException with a      *)
(* status code and a detail.                                               *)
(***************************************************************************)
Answer(body) == [status |-> 200, detail |-> NoneV, body |-> body]
HTTPException(status_code, detail) ==
    [status |-> status_code, detail |-> Str(detail), body |-> NoneV]

\* the kwargs that convert_text builds from the fields of the request
RequestKwargs(request) ==
    LET k0 == <<>>
        k1 == IF Truthy(request.model)
              THEN Append(k0, <<<<"m", "o", "d", "e", "l">>, request.model>>) ELSE k0
        k2 == IF Truthy(request.system_message)
              THEN Append(k1, <<<<"s", "y", "s", "t", "e", "m", "_", "m", "e", "s", "s", "a", "g", "e">>, request.system_message>>) ELSE k1
        k3 == IF request.temperature # NoneV
              THEN Append(k2, <<<<"t", "e", "m", "p", "e", "r", "a", "t", "u", "r", "e">>, request.temperature>>) ELSE k2
        k4 == IF request.max_tokens # NoneV
              THEN Append(k3, <<<<"m", "a", "x", "_", "t", "o", "k", "e", "n", "s">>, request.max_tokens>>) ELSE k3
    IN  IF Truthy(request.additional_params)
        THEN Append(k4, <<<<"a", "d", "d", "i", "t", "i", "o", "n", "a", "l", "_", "p", "a", "r", "a", "m", "s">>, request.additional_params>>) ELSE k4

\* POST /convert
convert_text(request, now, supported) ==
    LET out == convert(request.text, request.provider, RequestKwargs(request),
                       now, supported)
    IN  IF out.exc = "none"
        THEN Answer(Dict(<< <<<<"p", "r", "o", "v", "i", "d", "e", "r">>, Str(request.provider)>>,
                            <<<<"p", "a", "y", "l", "o", "a", "d">>, out.val>>,
                            <<<<"f", "o", "r", "m", "a", "t", "t", "e", "d", "_", "j", "s", "o", "n">>, Str(format_json(out.val, 2))>> >>))
        ELSE IF out.exc = "ValueError"
        THEN HTTPException(400, Val(out.val))
        ELSE HTTPException(500, <<"C", "o", "n", "v", "e", "r", "s", "i", "o", "n", " ", "f", "a", "i", "l", "e", "d", ":", " ">> \o Val(out.val))

\* the kwargs that quick_convert builds from its query parameters
QuickKwargs(model) ==
    IF Truthy(model) THEN << <<<<"m", "o", "d", "e", "l">>, model>> >> ELSE <<>>

\* GET /convert/quick
quick_convert(text, provider, model, now, supported) ==
    LET out == convert(text, provider, QuickKwargs(model), now, supported)
    IN  IF out.exc = "none" THEN Answer(out.val)
        ELSE IF out.exc = "ValueError"
        THEN HTTPException(400, Val(out.val))
        ELSE HTTPException(500, <<"C", "o", "n", "v", "e", "r", "s", "i", "o", "n", " ", "f", "a", "i", "l", "e", "d", ":", " ">> \o Val(out.val))

example_text == Str(<<"H", "e", "l", "l", "o", "!", " ", "H", "o", "w", " ", "c", "a", "n", " ", "I", " ", "h", "e", "l", "p", " ", "y", "o", "u", " ", "t", "o", "d", "a", "y", "?">>)

\* GET /examples/{provider}
get_provider_example(provider, now, supported) ==
    LET out == convert(example_text, provider, <<>>, now, supported)
    IN  IF out.exc = "none"
        THEN Answer(Dict(<< <<<<"p", "r", "o", "v", "i", "d", "e", "r">>, Str(provider)>>,
                            <<<<"e", "x", "a", "m", "p", "l", "e", "_", "i", "n", "p", "u", "t">>, example_text>>,
                            <<<<"e", "x", "a", "m", "p", "l", "e", "_", "o", "u", "t", "p", "u", "t">>, out.val>>,
                            <<<<"f", "o", "r", "m", "a", "t", "t", "e", "d", "_", "j", "s", "o", "n">>, Str(format_json(out.val, 2))>> >>))
        ELSE IF out.exc = "ValueError"
        THEN HTTPException(400, Val(out.val))
        ELSE HTTPException(500, <<"F", "a", "i", "l", "e", "d", " ", "t", "o", " ", "g", "e", "n", "e", "r", "a", "t", "e", " ", "e", "x", "a", "m", "p", "l", "e", ":", " ">> \o Val(out.val))

(***************************************************************************)
(* Inputs of the calls.                                                    *)
(***************************************************************************)
Texts == { Str(<<"h", "i">>), Str(<<"h", "é", "\"", "\\", "\n">>) }

ProviderInputs ==
    { SUPPORTED_PROVIDERS[i] : i \in 1..Len(SUPPORTED_PROVIDERS) }
      \cup { <<"O", "p", "e", "n", "A", "I">>, <<"G", "E", "N", "E", "R", "I", "C">>, <<"o", "L", "L", "a", "M", "a">>, <<"G", "o", "o", "g", "l", "e">> }
      \cup { <<"d", "o", "e", "s", "-", "n", "o", "t", "-", "e", "x", "i", "s", "t">>, <<"b", "o", "g", "u", "s">>, <<"o", "p", "e", "n", " ", "a", "i">>, <<>> }

OptionNames ==
    { <<"m", "o", "d", "e", "l">>, <<"s", "y", "s", "t", "e", "m", "_", "m", "e", "s", "s", "a", "g", "e">>, <<"t", "e", "m", "p", "e", "r", "a", "t", "u", "r", "e">>, <<"m", "a", "x", "_", "t", "o", "k", "e", "n", "s">>,
      <<"s", "t", "r", "e", "a", "m">>, <<"p", "a", "r", "a", "m", "e", "t", "e", "r", "s">>, <<"a", "d", "d", "i", "t", "i", "o", "n", "a", "l", "_", "p", "a", "r", "a", "m", "s">> }

OptionValues(name) ==
    CASE name = <<"m", "o", "d", "e", "l">> -> { Str(<<"m", "-", "1">>) }
      [] name = <<"s", "y", "s", "t", "e", "m", "_", "m", "e", "s", "s", "a", "g", "e">> -> { Str(<<"s", "y", "s">>), Str(<<>>) }
      [] name = <<"t", "e", "m", "p", "e", "r", "a", "t", "u", "r", "e">> -> { FloatV(0), FloatV(15) }
      [] name = <<"m", "a", "x", "_", "t", "o", "k", "e", "n", "s">> -> { IntV(0), IntV(500) }
      [] name = <<"s", "t", "r", "e", "a", "m">> -> { BoolV(TRUE) }
      [] name = <<"p", "a", "r", "a", "m", "e", "t", "e", "r", "s">> ->
           { Dict(<<>>), Dict(<< <<<<"t", "o", "p", "_", "k">>, IntV(5)>> >>) }
      [] name = <<"a", "d", "d", "i", "t", "i", "o", "n", "a", "l", "_", "p", "a", "r", "a", "m", "s">> ->
           { Dict(<<>>),
             Dict(<< <<<<"m", "o", "d", "e", "l">>, Str(<<"o", "v", "e", "r", "r", "i", "d", "e">>)>> >>),
             Dict(<< <<<<"u", "s", "e", "r">>, Str(<<"u">>)>>, <<<<"t", "i", "m", "e", "s", "t", "a", "m", "p">>, NoneV>> >>),
             Dict(<< <<<<"t", "a", "g", "s">>, List(<<Str(<<"a">>), IntV(-3)>>)>>,
                     <<<<"i", "n", "p", "u", "t">>, Dict(<< <<<<"k">>, BoolV(TRUE)>> >>)>> >>) }

OptionItems ==
    UNION { { <<name, x>> : x \in OptionValues(name) } : name \in OptionNames }

\* the keyword dicts of at most n options, in every order of passing
RECURSIVE KwargsUpTo(_)
KwargsUpTo(n) ==
    IF n = 0 THEN { <<>> }
    ELSE KwargsUpTo(n - 1)
           \cup { Append(kw, item) :
                    kw \in { k \in KwargsUpTo(n - 1) : Len(k) = n - 1 },
                    item \in OptionItems }

KwargsSet ==
    { kw \in KwargsUpTo(MaxOpts) :
        \A i, j \in 1..Len(kw) : kw[i][1] = kw[j][1] => i = j }

(***************************************************************************)
(* State.  clock is the UTC clock; heap holds the list objects, heap[1]    *)
(* being the class attribute SUPPORTED_PROVIDERS, and refs the lists that  *)
(* callers hold; call is the latest completed call of convert and prev the *)
(* call before it when it had the same arguments; formatted is the latest  *)
(* result of format_json; bpc, bargs, bidx, results are the frame of a     *)
(* running convert_batch; response is the latest request to an endpoint of *)
(* transcriber_routes.py with the answer it got.                           *)
(***************************************************************************)
NoCall ==
    [op |-> "none", text |-> NoneV, provider |-> <<>>, kwargs |-> <<>>,
     at |-> 0, out |-> Return(NoneV)]

NoBatch == [text |-> NoneV, providers |-> <<>>, kwargs |-> <<>>, start |-> 0]

NoResponse ==
    [endpoint |-> "none", text |-> NoneV, provider |-> <<>>, kwargs |-> <<>>,
     at |-> 0, result |-> Answer(NoneV)]

Init ==
    /\ clock = 0
    /\ heap = <<SUPPORTED_PROVIDERS>>
    /\ refs = <<>>
    /\ lastReturned = <<>>
    /\ nmut = 0
    /\ call = NoCall
    /\ prev = NoCall
    /\ formatted = <<>>
    /\ bpc = "idle"
    /\ bargs = NoBatch
    /\ bidx = 0
    /\ results = <<>>
    /\ response = NoResponse

\* the clock advances between any two steps
Tick ==
    /\ clock < MaxClock
    /\ clock' = clock + 1
    /\ UNCHANGED <<heapVars, callVars, batchVars, response>>

\* a caller invokes convert with fresh arguments
CallConvert ==
    /\ call = NoCall
    /\ \E text \in Texts, provider \in ProviderInputs, kwargs \in KwargsSet :
        /\ call' = [op |-> "convert", text |-> text, provider |-> provider,
                    kwargs |-> kwargs, at |-> clock,
                    out |-> convert(text, provider, kwargs, clock, heap[ClassAttr])]
        /\ prev' = NoCall
        /\ formatted' = <<>>
        /\ UNCHANGED <<clock, heapVars, batchVars, response>>

\* a caller invokes convert again with the arguments of the latest call
Reinvoke ==
    /\ call.op = "convert"
    /\ prev = NoCall
    /\ prev' = call
    /\ call' = [call EXCEPT !.at = clock,
                            !.out = convert(call.text, call.provider, call.kwargs,
                                            clock, heap[ClassAttr])]
    /\ formatted' = <<>>
    /\ UNCHANGED <<clock, heapVars, batchVars, response>>

\* the caller is done with the results it holds
Forget ==
    /\ call # NoCall
    /\ call' = NoCall
    /\ prev' = NoCall
    /\ formatted' = <<>>
    /\ UNCHANGED <<clock, heapVars, batchVars, response>>

\* format_json(payload) on the payload of the latest call
FormatJson ==
    /\ call.op = "convert"
    /\ call.out.exc = "none"
    /\ formatted = <<>>
    /\ formatted' = format_json(call.out.val, 2)
    /\ UNCHANGED <<clock, heapVars, call, prev, batchVars, response>>

\* the provider names and options of the batch calls
BatchProviders == { openai, ollama, generic, <<"O", "p", "e", "n", "A", "I">>, <<"b", "o", "g", "u", "s">> }

RECURSIVE ListsUpTo(_)
ListsUpTo(n) ==
    IF n = 0 THEN { <<>> }
    ELSE ListsUpTo(n - 1)
           \cup { Append(l, x) : l \in { k \in ListsUpTo(n - 1) : Len(k) = n - 1 },
                                 x \in BatchProviders }

\* options for a batch: none, one that every builder takes, one that the
\* builders of ollama and generic do not take
BatchKwargs ==
    { <<>>,
      << <<<<"m", "o", "d", "e", "l">>, Str(<<"m", "-", "1">>)>> >>,
      << <<<<"t", "e", "m", "p", "e", "r", "a", "t", "u", "r", "e">>, FloatV(15)>> >> }

BatchTexts == { Str(<<"h", "i">>) }

\* a caller invokes convert_batch: results = {}
BatchStart ==
    /\ bpc = "idle"
    /\ \E text \in BatchTexts, providers \in ListsUpTo(MaxBatch), kwargs \in BatchKwargs :
          bargs' = [text |-> text, providers |-> providers, kwargs |-> kwargs,
                    start |-> clock]
    /\ bpc' = "loop"
    /\ bidx' = 1
    /\ results' = <<>>
    /\ UNCHANGED <<clock, heapVars, callVars, response>>

\* one iteration of `for provider in providers`
BatchStep ==
    /\ bpc = "loop"
    /\ bidx <= Len(bargs.providers)
    /\ LET body == BatchBody(results, bargs.text, bargs.providers[bidx],
                             bargs.kwargs, clock, heap[ClassAttr])
       IN  /\ results' = body.results
           /\ bpc' = IF body.raised THEN "raised" ELSE "loop"
    /\ bidx' = bidx + 1
    /\ UNCHANGED <<clock, heapVars, callVars, bargs, response>>

\* return results
BatchReturn ==
    /\ bpc = "loop"
    /\ bidx > Len(bargs.providers)
    /\ bpc' = "done"
    /\ UNCHANGED <<clock, heapVars, callVars, bargs, bidx, results, response>>

\* the caller is done with the mapping it received
BatchForget ==
    /\ bpc = "done"
    /\ bpc' = "idle"
    /\ bargs' = NoBatch
    /\ bidx' = 0
    /\ results' = <<>>
    /\ UNCHANGED <<clock, heapVars, callVars, response>>

\* a caller invokes get_supported_providers and keeps the list it returns
GetSupportedProviders ==
    /\ Len(refs) < MaxRefs
    /\ LET r == get_supported_providers(heap)
       IN  /\ heap' = r.heap
           /\ refs' = Append(refs, r.ref)
           /\ lastReturned' = r.heap[r.ref]
    /\ UNCHANGED <<clock, nmut, callVars, batchVars, response>>

Foreign == <<"e", "v", "i", "l">>

RemoveAt(l, i) == [k \in 1..(Len(l) - 1) |-> IF k < i THEN l[k] ELSE l[k + 1]]
Reverse(l) == [k \in 1..Len(l) |-> l[Len(l) + 1 - k]]

\* a caller changes a list that get_supported_providers returned to it:
\* append, remove, reorder, overwrite
Mutate ==
    /\ nmut < MaxMutations
    /\ \E r \in 1..Len(refs) :
          LET l == heap[refs[r]]
          IN  \/ heap' = [heap EXCEPT ![refs[r]] = Append(l, Foreign)]
              \/ \E i \in 1..Len(l) : heap' = [heap EXCEPT ![refs[r]] = RemoveAt(l, i)]
              \/ Len(l) > 1 /\ heap' = [heap EXCEPT ![refs[r]] = Reverse(l)]
              \/ \E i \in 1..Len(l) : heap' = [heap EXCEPT ![refs[r]][i] = Foreign]
    /\ nmut' = nmut + 1
    /\ UNCHANGED <<clock, refs, lastReturned, callVars, batchVars, response>>

\* the request bodies that match TranscribeRequest
Requests ==
    [ text : Texts,
      provider : ProviderInputs,
      model : { NoneV, Str(<<>>), Str(<<"m", "-", "1">>) },
      system_message : { NoneV, Str(<<"s", "y", "s">>) },
      temperature : { NoneV, FloatV(0), FloatV(15) },
      max_tokens : { NoneV, IntV(500) },
      additional_params : { NoneV, Dict(<<>>),
                            Dict(<< <<<<"m", "o", "d", "e", "l">>, Str(<<"o", "v", "e", "r", "r", "i", "d", "e">>)>> >>) } ]

\* a client posts a request body to /convert
ConvertText ==
    /\ response = NoResponse
    /\ \E request \in Requests :
          response' = [endpoint |-> "convert_text", text |-> request.text,
                       provider |-> request.provider,
                       kwargs |-> RequestKwargs(request), at |-> clock,
                       result |-> convert_text(request, clock, heap[ClassAttr])]
    /\ UNCHANGED <<clock, heapVars, callVars, batchVars>>

\* a client gets /convert/quick
QuickConvert ==
    /\ response = NoResponse
    /\ \E text \in Texts, provider \in ProviderInputs,
          model \in { NoneV, Str(<<>>), Str(<<"m", "-", "1">>) } :
          response' = [endpoint |-> "quick_convert", text |-> text,
                       provider |-> provider,
                       kwargs |-> QuickKwargs(model), at |-> clock,
                       result |-> quick_convert(text, provider, model, clock,
                                                heap[ClassAttr])]
    /\ UNCHANGED <<clock, heapVars, callVars, batchVars>>

\* a client gets /examples/{provider}
GetProviderExample ==
    /\ response = NoResponse
    /\ \E provider \in ProviderInputs :
          response' = [endpoint |-> "get_provider_example", text |-> example_text,
                       provider |-> provider, kwargs |-> <<>>, at |-> clock,
                       result |-> get_provider_example(provider, clock,
                                                       heap[ClassAttr])]
    /\ UNCHANGED <<clock, heapVars, callVars, batchVars>>

\* the answer has gone to the client
Respond ==
    /\ response # NoResponse
    /\ response' = NoResponse
    /\ UNCHANGED <<clock, heapVars, callVars, batchVars>>

Next == Tick \/ CallConvert \/ Reinvoke \/ Forget

Spec == Init /\ [][Next]_vars

NextJson == Tick \/ CallConvert \/ FormatJson \/ Forget

SpecJson == Init /\ [][NextJson]_vars

NextBatch == Tick \/ BatchStart \/ BatchStep \/ BatchReturn \/ BatchForget

SpecBatch == Init /\ [][NextBatch]_vars

NextProviders == GetSupportedProviders \/ Mutate

SpecProviders == Init /\ [][NextProviders]_vars

NextRoutes == Tick \/ ConvertText \/ QuickConvert \/ GetProviderExample \/ Respond

SpecRoutes == Init /\ [][NextRoutes]_vars

(***************************************************************************)
(* Properties.                                                             *)
(***************************************************************************)
Canonical ==
    { <<"o", "p", "e", "n", "a", "i">>, <<"a", "n", "t", "h", "r", "o", "p", "i", "c">>, <<"o", "l", "l", "a", "m", "a">>, <<"g", "o", "o", "g", "l", "e">>, <<"c", "o", "h", "e", "r", "e">>,
      <<"h", "u", "g", "g", "i", "n", "g", "f", "a", "c", "e">>, <<"g", "e", "n", "e", "r", "i", "c">> }

Converted == call.op = "convert"
Succeeded == Converted /\ call.out.exc = "none"
Payload == Val(call.out.val)
TargetOf(c) == Lower(c.provider)
Target == TargetOf(call)
UserMessage(text) == Dict(<< <<<<"r", "o", "l", "e">>, Str(<<"u", "s", "e", "r">>)>>, <<<<"c", "o", "n", "t", "e", "n", "t">>, text>> >>)

\* C1: convert with a provider whose lowercased form is not one of the seven
\* canonical names raises the unsupported-provider error, whose message
\* names all seven; with a provider whose lowercased form is canonical, in
\* any casing, it does not raise that error.
C1_UnsupportedProvider ==
    Converted =>
        IF Target \in Canonical
        THEN call.out.exc # "ValueError"
        ELSE /\ call.out.exc = "ValueError"
             /\ \A name \in Canonical : Contains(Val(call.out.val), name)

C1_Witness ==
    /\ Converted
    /\ call.provider = <<"d", "o", "e", "s", "-", "n", "o", "t", "-", "e", "x", "i", "s", "t">>
    /\ call.out.exc = "ValueError"

\* C3: for a canonical provider, an option that the provider's builder does
\* not recognize causes no error and is ignored: the outcome is the one of
\* the call without the option.
C3_IgnoredOption ==
    ( /\ Converted
      /\ Target \in Canonical
      /\ Len(call.kwargs) = 1
      /\ ~InList(call.kwargs[1][1], BuilderParams(Target)) )
    => /\ call.out.exc = "none"
       /\ call.out = convert(call.text, call.provider, <<>>, call.at, SUPPORTED_PROVIDERS)

DefaultPayload(provider, text) ==
    CASE provider = <<"o", "p", "e", "n", "a", "i">> ->
           Dict(<< <<<<"m", "o", "d", "e", "l">>, Str(<<"g", "p", "t", "-", "4">>)>>,
                   <<<<"m", "e", "s", "s", "a", "g", "e", "s">>, List(<<UserMessage(text)>>)>>,
                   <<<<"t", "e", "m", "p", "e", "r", "a", "t", "u", "r", "e">>, FloatV(7)>> >>)
      [] provider = <<"a", "n", "t", "h", "r", "o", "p", "i", "c">> ->
           Dict(<< <<<<"m", "o", "d", "e", "l">>, Str(<<"c", "l", "a", "u", "d", "e", "-", "3", "-", "5", "-", "s", "o", "n", "n", "e", "t", "-", "2", "0", "2", "4", "1", "0", "2", "2">>)>>,
                   <<<<"m", "a", "x", "_", "t", "o", "k", "e", "n", "s">>, IntV(1024)>>,
                   <<<<"t", "e", "m", "p", "e", "r", "a", "t", "u", "r", "e">>, FloatV(10)>>,
                   <<<<"m", "e", "s", "s", "a", "g", "e", "s">>, List(<<UserMessage(text)>>)>> >>)
      [] provider = <<"o", "l", "l", "a", "m", "a">> ->
           Dict(<< <<<<"m", "o", "d", "e", "l">>, Str(<<"l", "l", "a", "m", "a", "2">>)>>,
                   <<<<"p", "r", "o", "m", "p", "t">>, text>>,
                   <<<<"s", "t", "r", "e", "a", "m">>, BoolV(FALSE)>> >>)
      [] provider = <<"g", "o", "o", "g", "l", "e">> ->
           Dict(<< <<<<"c", "o", "n", "t", "e", "n", "t", "s">>,
                     List(<< Dict(<< <<<<"r", "o", "l", "e">>, Str(<<"u", "s", "e", "r">>)>>,
                                     <<<<"p", "a", "r", "t", "s">>, List(<< Dict(<< <<<<"t", "e", "x", "t">>, text>> >>) >>)>> >>) >>)>>,
                   <<<<"g", "e", "n", "e", "r", "a", "t", "i", "o", "n", "C", "o", "n", "f", "i", "g">>, Dict(<< <<<<"t", "e", "m", "p", "e", "r", "a", "t", "u", "r", "e">>, FloatV(7)>> >>)>> >>)
      [] provider = <<"c", "o", "h", "e", "r", "e">> ->
           Dict(<< <<<<"m", "o", "d", "e", "l">>, Str(<<"c", "o", "m", "m", "a", "n", "d">>)>>,
                   <<<<"m", "e", "s", "s", "a", "g", "e">>, text>>,
                   <<<<"t", "e", "m", "p", "e", "r", "a", "t", "u", "r", "e">>, FloatV(7)>> >>)
      [] provider = <<"h", "u", "g", "g", "i", "n", "g", "f", "a", "c", "e">> ->
           Dict(<< <<<<"i", "n", "p", "u", "t", "s">>, text>>,
                   <<<<"p", "a", "r", "a", "m", "e", "t", "e", "r", "s">>,
                     Dict(<< <<<<"m", "a", "x", "_", "n", "e", "w", "_", "t", "o", "k", "e", "n", "s">>, IntV(250)>>,
                             <<<<"t", "e", "m", "p", "e", "r", "a", "t", "u", "r", "e">>, FloatV(7)>>,
                             <<<<"r", "e", "t", "u", "r", "n", "_", "f", "u", "l", "l", "_", "t", "e", "x", "t">>, BoolV(FALSE)>> >>)>> >>)

\* C4: for every canonical provider, convert without options succeeds and
\* returns the default payload of the provider and no other key; for
\* generic the keys model, input and timestamp, with model "default", the
\* text as input and a string as timestamp.
C4_DefaultPayloads ==
    (Converted /\ call.kwargs = <<>> /\ Target \in Canonical) =>
        /\ call.out.exc = "none"
        /\ IF Target = <<"g", "e", "n", "e", "r", "i", "c">>
           THEN /\ DictKeys(Payload) = <<<<"m", "o", "d", "e", "l">>, <<"i", "n", "p", "u", "t">>, <<"t", "i", "m", "e", "s", "t", "a", "m", "p">>>>
                /\ DictGet(Payload, <<"m", "o", "d", "e", "l">>) = Str(<<"d", "e", "f", "a", "u", "l", "t">>)
                /\ DictGet(Payload, <<"i", "n", "p", "u", "t">>) = call.text
                /\ Tag(DictGet(Payload, <<"t", "i", "m", "e", "s", "t", "a", "m", "p">>)) = "str"
           ELSE call.out.val = DefaultPayload(Target, call.text)

C4_Witness ==
    /\ Succeeded
    /\ call.kwargs = <<>>
    /\ call.provider = <<"h", "u", "g", "g", "i", "n", "g", "f", "a", "c", "e">>
    /\ call.out.val = DefaultPayload(<<"h", "u", "g", "g", "i", "n", "g", "f", "a", "c", "e">>, call.text)

EqualExceptAt(a, b, key) ==
    /\ DictKeys(a) = DictKeys(b)
    /\ \A i \in 1..Len(a) : a[i][1] # key => a[i] = b[i]

C8_TokenLimitGate ==
    (Succeeded /\ Target \in {<<"o", "p", "e", "n", "a", "i">>, <<"c", "o", "h", "e", "r", "e">>, <<"g", "o", "o", "g", "l", "e">>}) =>
        LET supplied == /\ DictHas(call.kwargs, <<"m", "a", "x", "_", "t", "o", "k", "e", "n", "s">>)
                        /\ Val(DictGet(call.kwargs, <<"m", "a", "x", "_", "t", "o", "k", "e", "n", "s">>)) # 0
            holder == IF Target = <<"g", "o", "o", "g", "l", "e">>
                      THEN Val(DictGet(Payload, <<"g", "e", "n", "e", "r", "a", "t", "i", "o", "n", "C", "o", "n", "f", "i", "g">>))
                      ELSE Payload
            key == IF Target = <<"g", "o", "o", "g", "l", "e">> THEN <<"m", "a", "x", "O", "u", "t", "p", "u", "t", "T", "o", "k", "e", "n", "s">> ELSE <<"m", "a", "x", "_", "t", "o", "k", "e", "n", "s">>
        IN  /\ DictHas(holder, key) <=> supplied
            /\ supplied => DictGet(holder, key) = DictGet(call.kwargs, <<"m", "a", "x", "_", "t", "o", "k", "e", "n", "s">>)

C8_Witness ==
    /\ Succeeded
    /\ Target = <<"o", "p", "e", "n", "a", "i">>
    /\ call.kwargs = << <<<<"m", "a", "x", "_", "t", "o", "k", "e", "n", "s">>, IntV(0)>> >>
    /\ ~DictHas(Payload, <<"m", "a", "x", "_", "t", "o", "k", "e", "n", "s">>)

Messages == Val(DictGet(Payload, <<"m", "e", "s", "s", "a", "g", "e", "s">>))
SystemMessage(s) == Dict(<< <<<<"r", "o", "l", "e">>, Str(<<"s", "y", "s", "t", "e", "m">>)>>, <<<<"c", "o", "n", "t", "e", "n", "t">>, s>> >>)

\* C9 as stated: for openai, messages is the system message followed by the
\* user message if and only if system_message is given, and the user
\* message alone when it is omitted.
C9_SystemIffGiven ==
    (Succeeded /\ Target = <<"o", "p", "e", "n", "a", "i">>) =>
        IF DictHas(call.kwargs, <<"s", "y", "s", "t", "e", "m", "_", "m", "e", "s", "s", "a", "g", "e">>)
        THEN Messages = << SystemMessage(DictGet(call.kwargs, <<"s", "y", "s", "t", "e", "m", "_", "m", "e", "s", "s", "a", "g", "e">>)),
                           UserMessage(call.text) >>
        ELSE Messages = << UserMessage(call.text) >>

\* C9 as amended: for openai, messages is the system message followed by
\* the user message if and only if system_message is given and is not the
\* empty string, and the user message alone otherwise; the user message is
\* always the last element.
C9_SystemIffNonEmpty ==
    (Succeeded /\ Target = <<"o", "p", "e", "n", "a", "i">>) =>
        /\ IF /\ DictHas(call.kwargs, <<"s", "y", "s", "t", "e", "m", "_", "m", "e", "s", "s", "a", "g", "e">>)
              /\ DictGet(call.kwargs, <<"s", "y", "s", "t", "e", "m", "_", "m", "e", "s", "s", "a", "g", "e">>) # Str(<<>>)
           THEN Messages = << SystemMessage(DictGet(call.kwargs, <<"s", "y", "s", "t", "e", "m", "_", "m", "e", "s", "s", "a", "g", "e">>)),
                              UserMessage(call.text) >>
           ELSE Messages = << UserMessage(call.text) >>
        /\ Messages[Len(Messages)] = UserMessage(call.text)

C9_Witness ==
    /\ Succeeded
    /\ Target = <<"o", "p", "e", "n", "a", "i">>
    /\ call.kwargs = << <<<<"s", "y", "s", "t", "e", "m", "_", "m", "e", "s", "s", "a", "g", "e">>, Str(<<"s", "y", "s">>)>> >>
    /\ Len(Messages) = 2

\* C10: for generic, every key of a given additional_params is a top-level
\* key of the payload with the value of additional_params, also when it is
\* model, input or timestamp, and the builder's keys that are not keys of
\* additional_params keep the builder's values.
C10_AdditionalParams ==
    (Succeeded /\ Target = <<"g", "e", "n", "e", "r", "i", "c">> /\ DictHas(call.kwargs, <<"a", "d", "d", "i", "t", "i", "o", "n", "a", "l", "_", "p", "a", "r", "a", "m", "s">>)) =>
        LET extra == Val(DictGet(call.kwargs, <<"a", "d", "d", "i", "t", "i", "o", "n", "a", "l", "_", "p", "a", "r", "a", "m", "s">>))
        IN  /\ \A i \in 1..Len(extra) :
                  /\ DictHas(Payload, extra[i][1])
                  /\ DictGet(Payload, extra[i][1]) = extra[i][2]
            /\ ~DictHas(extra, <<"m", "o", "d", "e", "l">>) =>
                  DictGet(Payload, <<"m", "o", "d", "e", "l">>) = Arg(call.kwargs, <<"m", "o", "d", "e", "l">>, Str(<<"d", "e", "f", "a", "u", "l", "t">>))
            /\ ~DictHas(extra, <<"i", "n", "p", "u", "t">>) => DictGet(Payload, <<"i", "n", "p", "u", "t">>) = call.text
            /\ ~DictHas(extra, <<"t", "i", "m", "e", "s", "t", "a", "m", "p">>) =>
                  DictGet(Payload, <<"t", "i", "m", "e", "s", "t", "a", "m", "p">>) = Str(isoformat(call.at))

C10_Witness ==
    /\ Succeeded
    /\ Target = <<"g", "e", "n", "e", "r", "i", "c">>
    /\ call.kwargs = << <<<<"a", "d", "d", "i", "t", "i", "o", "n", "a", "l", "_", "p", "a", "r", "a", "m", "s">>,
                          Dict(<< <<<<"m", "o", "d", "e", "l">>, Str(<<"o", "v", "e", "r", "r", "i", "d", "e">>)>> >>)>> >>
    /\ DictGet(Payload, <<"m", "o", "d", "e", "l">>) = Str(<<"o", "v", "e", "r", "r", "i", "d", "e">>)
    /\ DictGet(Payload, <<"i", "n", "p", "u", "t">>) = call.text

\* C7: for every payload that convert returns, format_json(payload) is JSON
\* text that parses, and the parse equals the payload, with the keys in the
\* order in which the builder inserted them.
C7_RoundTrip ==
    formatted # <<>> => loads(formatted) = Return(call.out.val)

C7_Witness ==
    /\ formatted # <<>>
    /\ call.text = Str(<<"h", "é", "\"", "\\", "\n">>)
    /\ Target = <<"o", "p", "e", "n", "a", "i">>
    /\ Contains(formatted, <<"é", "\\", "\"">>)
BatchEntry(out) ==
    IF out.exc = "none" THEN out.val ELSE Dict(<< <<<<"e", "r", "r", "o", "r">>, out.val>> >>)

\* C2: convert_batch never aborts, and the mapping it builds has exactly
\* the names of the providers handled so far as keys, each mapped to the
\* payload that convert returns for it or, when convert fails for it, to
\* {"error": message}, whatever the outcome of the providers before and
\* after it; at the return the keys are the names of the input list.
C2_BatchIsolation ==
    /\ bpc # "raised"
    /\ bpc \in {"loop", "done"} =>
          /\ { results[i][1] : i \in 1..Len(results) }
               = { bargs.providers[i] : i \in 1..(bidx - 1) }
          /\ \A i \in 1..Len(results) :
                \E now \in bargs.start..clock :
                    results[i][2] = BatchEntry(convert(bargs.text, results[i][1], bargs.kwargs,
                                                       now, SUPPORTED_PROVIDERS))
    /\ bpc = "done" => bidx = Len(bargs.providers) + 1

C2_Witness ==
    /\ bpc = "done"
    /\ bargs.providers = <<openai, <<"b", "o", "g", "u", "s">>, ollama>>
    /\ bargs.kwargs = << <<<<"t", "e", "m", "p", "e", "r", "a", "t", "u", "r", "e">>, FloatV(15)>> >>
    /\ Len(results) = 3
    /\ DictKeys(Val(results[1][2])) = <<<<"m", "o", "d", "e", "l">>, <<"m", "e", "s", "s", "a", "g", "e", "s">>, <<"t", "e", "m", "p", "e", "r", "a", "t", "u", "r", "e">>>>
    /\ DictKeys(Val(results[2][2])) = <<<<"e", "r", "r", "o", "r">>>>
    /\ DictKeys(Val(results[3][2])) = <<<<"e", "r", "r", "o", "r">>>>

Accepts(provider) ==
    convert(Str(<<"h", "i">>), provider, <<>>, clock, heap[ClassAttr]).exc # "ValueError"

\* C6: get_supported_providers returns the seven names in their order after
\* any earlier calls and any changes that callers made to the lists
\* returned before, and those changes never change which providers convert
\* accepts.
C6_ProvidersFixed ==
    /\ refs # <<>> =>
          lastReturned = << <<"o", "p", "e", "n", "a", "i">>, <<"a", "n", "t", "h", "r", "o", "p", "i", "c">>, <<"o", "l", "l", "a", "m", "a">>, <<"g", "o", "o", "g", "l", "e">>,
                            <<"c", "o", "h", "e", "r", "e">>, <<"h", "u", "g", "g", "i", "n", "g", "f", "a", "c", "e">>, <<"g", "e", "n", "e", "r", "i", "c">> >>
    /\ \A provider \in ProviderInputs \cup {Foreign} :
          Accepts(provider) <=> Lower(provider) \in Canonical

C6_Witness ==
    /\ Len(refs) = 2
    /\ nmut > 0
    /\ heap[refs[1]] # lastReturned
    /\ heap[refs[2]] = lastReturned
Requested == response.endpoint # "none"
ConverterOutcome ==
    convert(response.text, response.provider, response.kwargs, response.at,
            SUPPORTED_PROVIDERS)

\* the two error statuses of C11: an unsupported provider is answered with
\* 400 and the converter's message as detail, any other exception of the
\* conversion with 500 and a detail that wraps its message
C11_ErrorStatuses ==
    Requested =>
        /\ Lower(response.provider) \notin Canonical =>
              /\ response.result.status = 400
              /\ response.result.detail = ConverterOutcome.val
        /\ ConverterOutcome.exc \notin {"none", "ValueError"} =>
              /\ response.result.status = 500
              /\ response.result.detail # ConverterOutcome.val
              /\ Contains(Val(response.result.detail), Val(ConverterOutcome.val))

\* the last clause of C11: a request that matches ConversionRequest, with a
\* canonical provider, is never answered with an error status
C11_ValidRequestSucceeds ==
    (Requested /\ Lower(response.provider) \in Canonical) =>
        response.result.status = 200

\* C11: convert_text, quick_convert and get_provider_example answer an
\* unsupported provider with 400 and the converter's message, any other
\* exception of the conversion with 500 and a wrapped message, and never
\* answer a request that matches ConversionRequest with an error status.
C11_StatusMapping == C11_ErrorStatuses /\ C11_ValidRequestSucceeds
====
